---- MODULE Spec2Model ----
(***************************************************************************)
(* PuppeteerRealBrowserClient (src/src/index.ts): lazy browser start,      *)
(* per-attempt page lifecycle, retry with attempt accounting, bounded      *)
(* fan-out (fetchMany) and close.                                          *)
(*                                                                         *)
(* Every `await` of the source is a suspension point: an action of the     *)
(* model runs the code from one settled await up to the next await.        *)
(* Engine calls (connect, newPage, setUserAgent, setJavaScriptEnabled,     *)
(* goto, content, page.close, browser.close) and user actions settle       *)
(* either way, chosen by the environment.                                  *)
(***************************************************************************)
EXTENDS Integers, Sequences, FiniteSets, TLC

\* ---------------------------------------------------------------- bounds
MaxRetries == 2       \* largest maxRetries of a direct fetch call
MaxBase == 3          \* largest base retry count (`retries`) of a direct fetch call
MaxRequests == 3      \* largest request list given to fetchMany
MaxCloseCalls == 2    \* close() calls made by the caller in one run
MaxActions == 3       \* longest action list given to extractActions

Slots == 1..MaxRequests

\* ------------------------------------------------------- values and inputs
NoNav == -1           \* goto has not settled in this attempt
NoStatus == 0         \* goto gave no response object, or status() is undefined
DefaultStatus == 500
OkStatus == 200
NavResults == {NoStatus, 200, 404}

\* what an awaited call can throw
EngineError(call) == [kind |-> "Error", message |-> call, status |-> NoStatus]
TypeError == [kind |-> "Error", message |-> "TypeError", status |-> NoStatus]
ActionThrows ==
    { [kind |-> "Error", message |-> "ActionError", status |-> NoStatus],
      [kind |-> "NonError", message |-> "", status |-> NoStatus],
      [kind |-> "Nullish", message |-> "", status |-> NoStatus] }
NoError == [kind |-> "None", message |-> "", status |-> NoStatus]

\* action descriptors: a bare callable, or a record tagged with its phase
ActionKinds == {"function", "beforeRequest", "afterRequest"}
ActionLists ==
    { <<>>, <<"function">>, <<"beforeRequest">>,
      <<"beforeRequest", "afterRequest">>,
      <<"function", "beforeRequest">> }

\* the `actions` option left out (undefined)
ActionsAbsent == <<"absent">>

\* every action list of at most MaxActions descriptors, and the absent list
AllActionLists ==
    {ActionsAbsent} \cup UNION {[1..n -> ActionKinds] : n \in 0..MaxActions}

VARIABLES
    cfg,        \* client options and request options of the run
    browser,    \* this.browser: 0 = undefined, else the handle stored
    handle,     \* engine side: state of the handle started by slot h's connect
    calls,      \* one record per fetch call (slot)
    fm,         \* the fetchMany call: position, loop index, executing
    results,    \* fetchMany's results array (a hole is << >>)
    closer      \* the caller of close(): position, calls made, log

vars == <<cfg, browser, handle, calls, fm, results, closer>>

\* ------------------------------------------------------------ collaborators
defaultPuppeteerActionType == "afterRequest"

\* the client's success predicate: 2xx unless the client replaces it
IsSuccess(status) == cfg.predicate = "any" \/ (status >= 200 /\ status < 300)

InvalidStatusCodeError(status) ==
    [kind |-> "Error", message |-> "InvalidStatusCode", status |-> status]

\* ------------------------------------------------------------ extractActions
RECURSIVE SelectIdx(_, _, _)
SelectIdx(actions, k, wantBefore) ==
    IF k > Len(actions) THEN <<>>
    ELSE LET actionType == IF actions[k] = "function"
                           THEN defaultPuppeteerActionType ELSE actions[k]
             isBefore == (actionType = "beforeRequest")
         IN (IF isBefore = wantBefore THEN <<k>> ELSE <<>>)
            \o SelectIdx(actions, k + 1, wantBefore)

\* mutant: the two buckets are swapped
extractActionsSwapped(actions) ==
    LET list == IF actions = ActionsAbsent THEN <<>> ELSE actions
    IN [before |-> SelectIdx(list, 1, FALSE), after |-> SelectIdx(list, 1, TRUE)]

\* lines 91-114; an action function is named by its place in the list
extractActions(actions) ==
    LET list == IF actions = ActionsAbsent THEN <<>> ELSE actions
    IN [before |-> SelectIdx(list, 1, TRUE), after |-> SelectIdx(list, 1, FALSE)]

\* ------------------------------------------------------------ fetch
InitCall ==
    [pc |-> "idle", cur |-> 0, fa |-> <<>>, page |-> FALSE, err |-> NoError,
     nav |-> NoNav, k |-> 0, h |-> 0, resp |-> <<>>,
     req |-> 0, index |-> 0,
     pst |-> "none", dangling |-> 0, executed |-> 0, delays |-> 0]

errorMessage(e) == IF e.kind = "Error" THEN e.message ELSE "Unknown error"

FailedAttempt(c, e) == [error |-> errorMessage(e), call |-> c.req, n |-> c.cur]

\* mutant: attempts without the + 1
SuccessResponseNoPlusOne(c) ==
    [body |-> "content", headers |-> "response",
     status |-> IF c.nav # 0 THEN c.nav ELSE OkStatus, statusText |-> "Ok",
     attempts |-> c.cur, failedAttempts |-> c.fa, req |-> c.req]

SuccessResponse(c) ==
    [body |-> "content", headers |-> "response",
     status |-> IF c.nav # 0 THEN c.nav ELSE OkStatus, statusText |-> "Ok",
     attempts |-> c.cur + 1, failedAttempts |-> c.fa, req |-> c.req]

FailureResponse(c) ==
    [body |-> errorMessage(c.err), headers |-> "empty",
     status |-> IF c.err.status # 0 THEN c.err.status ELSE DefaultStatus,
     statusText |-> "Request Failed",
     attempts |-> c.cur + 1, failedAttempts |-> c.fa, req |-> c.req]

\* the call has returned: the locals of its closure are gone
Return(c) == [c EXCEPT !.page = FALSE, !.k = 0, !.h = 0]

\* lines 185-192: reading error.status of a null/undefined throw raises inside
\* the catch block, so the fetch rejects
FinalFailure(c) ==
    IF c.err.kind = "Nullish"
    THEN [c EXCEPT !.pc = "thrown"]
    ELSE [c EXCEPT !.pc = "done", !.resp = <<FailureResponse(c)>>]

RECURSIVE attemptRequest(_, _, _)
RECURSIVE Catch(_, _, _)
RECURSIVE AfterCleanup(_, _)

\* mutant: the delay is awaited whatever retryDelay is
AfterCleanupAlwaysDelays(c, br) ==
    IF c.cur < cfg.maxRetries
    THEN [c EXCEPT !.pc = "retryDelay"]
    ELSE FinalFailure(c)

\* mutant: one retry too many (<= for <)
AfterCleanupOffByOne(c, br) ==
    IF c.cur <= cfg.maxRetries
    THEN IF cfg.retryDelay
         THEN [c EXCEPT !.pc = "retryDelay"]
         ELSE attemptRequest(c, c.cur + 1, br)
    ELSE FinalFailure(c)

\* lines 177-192, after the cleanup close has settled (or was not needed)
AfterCleanup(c, br) ==
    IF c.cur < cfg.maxRetries
    THEN IF cfg.retryDelay
         THEN [c EXCEPT !.pc = "retryDelay"]
         ELSE attemptRequest(c, c.cur + 1, br)
    ELSE FinalFailure(c)

\* mutant: the catch block does not close the page
CatchNoClose(c, e, br) ==
    AfterCleanup([c EXCEPT !.fa = Append(@, FailedAttempt(c, e)), !.err = e], br)

\* mutant: the failure record replaces the list
CatchOverwrites(c, e, br) ==
    LET c1 == [c EXCEPT !.fa = <<FailedAttempt(c, e)>>, !.err = e]
    IN IF c.page
       THEN [c1 EXCEPT !.pc = "catchClose", !.pst = "closeInvoked"]
       ELSE AfterCleanup(c1, br)

\* mutant: the cleanup close is invoked but not awaited
CatchCloseNotAwaited(c, e, br) ==
    LET c1 == [c EXCEPT !.fa = Append(@, FailedAttempt(c, e)), !.err = e]
    IN IF c.page
       THEN AfterCleanup([c1 EXCEPT !.pst = "closeInvoked"], br)
       ELSE AfterCleanup(c1, br)

\* lines 168-175: record the failure, then close the page if one was opened
Catch(c, e, br) ==
    LET c1 == [c EXCEPT !.fa = Append(@, FailedAttempt(c, e)), !.err = e]
    IN IF c.page
       THEN [c1 EXCEPT !.pc = "catchClose", !.pst = "closeInvoked"]
       ELSE AfterCleanup(c1, br)

\* lines 134-145: a new attempt up to its first await, browser.newPage()
attemptRequest(c, currentRetry, br) ==
    LET c0 == [c EXCEPT !.cur = currentRetry, !.page = FALSE, !.nav = NoNav,
                        !.k = 0, !.err = NoError,
                        !.executed = @ + 1,
                        !.dangling = @ + (IF c.pst = "open" THEN 1 ELSE 0),
                        !.pst = "none"]
    IN IF br = 0
       THEN Catch(c0, TypeError, br)
       ELSE [c0 EXCEPT !.pc = "newPage", !.h = br]

\* line 130 and lines 68-72: fetch up to its first await
fetch(c, br) ==
    IF br = 0 THEN [c EXCEPT !.pc = "connect"] ELSE [c EXCEPT !.pc = "ensured"]

Before == extractActions(cfg.actions).before
After == extractActions(cfg.actions).after

\* line 152: page.close() is called
InvokeClose(c) == [c EXCEPT !.pc = "close", !.pst = "closeInvoked"]

\* line 151
InvokeContent(c) == [c EXCEPT !.pc = "content"]

\* lines 150 and 116-120
RunAfter(c) ==
    IF Len(After) > 0 THEN [c EXCEPT !.pc = "after", !.k = 1] ELSE InvokeContent(c)

\* line 149
InvokeGoto(c) == [c EXCEPT !.pc = "goto"]

\* mutant: the before-request actions are not run
RunBeforeSkipped(c) == InvokeGoto(c)

\* lines 148 and 116-120
RunBefore(c) ==
    IF Len(Before) > 0 THEN [c EXCEPT !.pc = "before", !.k = 1] ELSE InvokeGoto(c)

\* lines 86-88
ConfigureJs(c) ==
    IF cfg.javaScriptEnabled THEN [c EXCEPT !.pc = "setJavaScriptEnabled"]
    ELSE RunBefore(c)

\* lines 82-84
configurePage(c) ==
    IF cfg.userAgent THEN [c EXCEPT !.pc = "setUserAgent"] ELSE ConfigureJs(c)

\* mutant: only the success predicate decides
ClassifyByPredicateOnly(c, br) ==
    IF ~IsSuccess(c.nav)
    THEN Catch(c, InvalidStatusCodeError(IF c.nav = NoStatus THEN DefaultStatus ELSE c.nav), br)
    ELSE Return([c EXCEPT !.pc = "done", !.resp = <<SuccessResponse(c)>>])

\* lines 154-167: classification once the page is closed
Classify(c, br) ==
    IF c.nav = NoStatus \/ ~IsSuccess(c.nav)
    THEN Catch(c, InvalidStatusCodeError(IF c.nav = NoStatus THEN DefaultStatus ELSE c.nav), br)
    ELSE Return([c EXCEPT !.pc = "done", !.resp = <<SuccessResponse(c)>>])

\* base client: executeRequest stores the response of its fetch at its index
executeRequestDone(res, c) ==
    IF c.pc = "done" /\ c.index # 0 THEN [res EXCEPT ![c.index] = c.resp] ELSE res

Settled(c) == c.pc \in {"done", "thrown"}

\* one step of call i leading to the call record c2
Step(i, c2) ==
    /\ calls' = [calls EXCEPT ![i] = c2]
    /\ results' = executeRequestDone(results, c2)

\* the engine can serve a call on a page of handle h
Live(h) == h # 0 /\ handle[h] # "closed"

\* the engine call of a page of handle h may throw
MayReject(h) == cfg.pageFaults \/ ~Live(h)

\* a caller invokes fetch directly
FetchCall ==
    /\ cfg.mode = "fetch"
    /\ calls[1].pc = "idle"
    /\ Step(1, fetch([calls[1] EXCEPT !.req = 1], browser))
    /\ UNCHANGED <<cfg, browser, handle, fm, closer>>

\* lines 59-65: connect resolves, the handle is stored
ConnectResolve(i) ==
    /\ calls[i].pc = "connect"
    /\ handle' = [handle EXCEPT ![i] = "live"]
    /\ browser' = i
    /\ Step(i, [calls[i] EXCEPT !.pc = "ensured"])
    /\ UNCHANGED <<cfg, fm, closer>>

\* line 59 throws: nothing in fetch catches it
ConnectReject(i) ==
    /\ calls[i].pc = "connect"
    /\ Step(i, [calls[i] EXCEPT !.pc = "thrown"])
    /\ UNCHANGED <<cfg, browser, handle, fm, closer>>

\* mutant: the first attempt ignores the base retry count
EnsureDoneFromZero(i) ==
    /\ calls[i].pc = "ensured"
    /\ Step(i, attemptRequest(calls[i], 0, browser))
    /\ UNCHANGED <<cfg, browser, handle, fm, closer>>

\* line 196: ensureBrowser has returned, the first attempt starts
EnsureDone(i) ==
    /\ calls[i].pc = "ensured"
    /\ Step(i, attemptRequest(calls[i], cfg.retries, browser))
    /\ UNCHANGED <<cfg, browser, handle, fm, closer>>

\* line 145 resolves, line 147 follows
NewPageResolve(i) ==
    /\ calls[i].pc = "newPage"
    /\ Live(calls[i].h)
    /\ Step(i, configurePage([calls[i] EXCEPT !.page = TRUE, !.pst = "open"]))
    /\ UNCHANGED <<cfg, browser, handle, fm, closer>>

NewPageReject(i) ==
    /\ calls[i].pc = "newPage"
    /\ MayReject(calls[i].h)
    /\ Step(i, Catch(calls[i], EngineError("newPage"), browser))
    /\ UNCHANGED <<cfg, browser, handle, fm, closer>>

SetUserAgentResolve(i) ==
    /\ calls[i].pc = "setUserAgent"
    /\ Live(calls[i].h)
    /\ Step(i, ConfigureJs(calls[i]))
    /\ UNCHANGED <<cfg, browser, handle, fm, closer>>

SetJavaScriptEnabledResolve(i) ==
    /\ calls[i].pc = "setJavaScriptEnabled"
    /\ Live(calls[i].h)
    /\ Step(i, RunBefore(calls[i]))
    /\ UNCHANGED <<cfg, browser, handle, fm, closer>>

ConfigureReject(i) ==
    /\ calls[i].pc \in {"setUserAgent", "setJavaScriptEnabled"}
    /\ MayReject(calls[i].h)
    /\ Step(i, Catch(calls[i], EngineError(calls[i].pc), browser))
    /\ UNCHANGED <<cfg, browser, handle, fm, closer>>

\* lines 116-120: the k-th action of the running bucket returns
ActionResolve(i) ==
    /\ calls[i].pc \in {"before", "after"}
    /\ LET c == calls[i]
           bucket == IF c.pc = "before" THEN Before ELSE After
       IN Step(i, IF c.k < Len(bucket) THEN [c EXCEPT !.k = @ + 1]
                  ELSE IF c.pc = "before" THEN InvokeGoto(c)
                  ELSE InvokeContent(c))
    /\ UNCHANGED <<cfg, browser, handle, fm, closer>>

ActionThrow(i) ==
    /\ calls[i].pc \in {"before", "after"}
    /\ \E e \in ActionThrows : Step(i, Catch(calls[i], e, browser))
    /\ UNCHANGED <<cfg, browser, handle, fm, closer>>

\* line 149 resolves with a response (or none), line 150 follows
GotoResolve(i) ==
    /\ calls[i].pc = "goto"
    /\ Live(calls[i].h)
    /\ \E s \in NavResults : Step(i, RunAfter([calls[i] EXCEPT !.nav = s]))
    /\ UNCHANGED <<cfg, browser, handle, fm, closer>>

GotoReject(i) ==
    /\ calls[i].pc = "goto"
    /\ MayReject(calls[i].h)
    /\ Step(i, Catch(calls[i], EngineError("goto"), browser))
    /\ UNCHANGED <<cfg, browser, handle, fm, closer>>

\* line 151 resolves, line 152 follows
ContentResolve(i) ==
    /\ calls[i].pc = "content"
    /\ Live(calls[i].h)
    /\ Step(i, InvokeClose(calls[i]))
    /\ UNCHANGED <<cfg, browser, handle, fm, closer>>

ContentReject(i) ==
    /\ calls[i].pc = "content"
    /\ MayReject(calls[i].h)
    /\ Step(i, Catch(calls[i], EngineError("content"), browser))
    /\ UNCHANGED <<cfg, browser, handle, fm, closer>>

\* line 152 resolves, lines 154-167 follow
PageCloseResolve(i) ==
    /\ calls[i].pc = "close"
    /\ Live(calls[i].h)
    /\ Step(i, Classify(calls[i], browser))
    /\ UNCHANGED <<cfg, browser, handle, fm, closer>>

\* line 152 throws inside the try block
PageCloseReject(i) ==
    /\ calls[i].pc = "close"
    /\ MayReject(calls[i].h)
    /\ Step(i, Catch(calls[i], EngineError("close"), browser))
    /\ UNCHANGED <<cfg, browser, handle, fm, closer>>

\* line 174: page.close().catch(() => {}) settles, either way
CleanupCloseSettle(i) ==
    /\ calls[i].pc = "catchClose"
    /\ Step(i, AfterCleanup(calls[i], browser))
    /\ UNCHANGED <<cfg, browser, handle, fm, closer>>

\* lines 178-182: the retry delay elapses
RetryDelayDone(i) ==
    /\ calls[i].pc = "retryDelay"
    /\ Step(i, attemptRequest([calls[i] EXCEPT !.delays = @ + 1],
                              calls[i].cur + 1, browser))
    /\ UNCHANGED <<cfg, browser, handle, fm, closer>>

CallStep(i) ==
    \/ ConnectResolve(i) \/ ConnectReject(i) \/ EnsureDone(i)
    \/ NewPageResolve(i) \/ NewPageReject(i)
    \/ SetUserAgentResolve(i) \/ SetJavaScriptEnabledResolve(i) \/ ConfigureReject(i)
    \/ ActionResolve(i) \/ ActionThrow(i)
    \/ GotoResolve(i) \/ GotoReject(i)
    \/ ContentResolve(i) \/ ContentReject(i)
    \/ PageCloseResolve(i) \/ PageCloseReject(i)
    \/ CleanupCloseSettle(i) \/ RetryDelayDone(i)

\* ------------------------------------------------------------ close
\* lines 223-227 and 74-76: close() up to its await of browser.close()
close(cl, br) ==
    IF br # 0
    THEN [cl EXCEPT !.pc = "closing", !.target = br, !.made = @ + 1, !.last = "invoked"]
    ELSE [cl EXCEPT !.made = @ + 1, !.last = "noop"]

CloseCall ==
    /\ closer.pc = "idle"
    /\ closer.made < cfg.closes
    /\ closer' = close(closer, browser)
    /\ handle' = IF browser # 0 /\ handle[browser] = "live"
                 THEN [handle EXCEPT ![browser] = "closing"] ELSE handle
    /\ UNCHANGED <<cfg, browser, calls, fm, results>>

\* mutant: the stored handle is kept after browser.close()
BrowserCloseResolveKeep ==
    /\ closer.pc = "closing"
    /\ handle' = [handle EXCEPT ![closer.target] = "closed"]
    /\ closer' = [closer EXCEPT !.pc = "idle", !.target = 0, !.last = "returned"]
    /\ UNCHANGED <<cfg, browser, calls, fm, results>>

\* line 77: browser.close() resolved, the stored handle is cleared
BrowserCloseResolve ==
    /\ closer.pc = "closing"
    /\ handle' = [handle EXCEPT ![closer.target] = "closed"]
    /\ browser' = 0
    /\ closer' = [closer EXCEPT !.pc = "idle", !.target = 0, !.last = "returned"]
    /\ UNCHANGED <<cfg, calls, fm, results>>

\* line 76 throws: close() rejects and line 77 is skipped
BrowserCloseReject ==
    /\ closer.pc = "closing"
    /\ \E st \in {"live", "closed"} :
         /\ st = "live" => handle[closer.target] # "closed"
         /\ handle' = [handle EXCEPT ![closer.target] = st]
    /\ closer' = [closer EXCEPT !.pc = "idle", !.target = 0, !.last = "threw"]
    /\ UNCHANGED <<cfg, browser, calls, fm, results>>

\* ------------------------------------------------------------ fetchMany
InFlight(executing, cs) == {s \in Slots : \E j \in 1..Len(executing) : executing[j] = s /\ ~Settled(cs[s])}

\* base client: the bound is reached by the fetches in flight
shouldThrottle(executing, cs, concurrency) ==
    concurrency # 0 /\ Cardinality(InFlight(executing, cs)) >= concurrency

\* base client: handleConcurrency returns once a fetch in flight has settled
handleConcurrency(executing, cs, concurrency) == ~shouldThrottle(executing, cs, concurrency)

\* base client: optional delay before every request but the first, then fetch
executeRequest(c, request, index, requestDelay, br) ==
    LET c1 == [c EXCEPT !.req = request, !.index = index]
    IN IF requestDelay /\ index > 1 THEN [c1 EXCEPT !.pc = "requestDelay"]
       ELSE fetch(c1, br)

\* mutant: the loop never waits for handleConcurrency
RECURSIVE DispatchLoopNoThrottle(_, _, _, _)
DispatchLoopNoThrottle(cs, executing, i, br) ==
    IF i > cfg.nReq
    THEN [calls |-> cs, fm |-> [pc |-> "all", i |-> i, executing |-> executing]]
    ELSE DispatchLoopNoThrottle(
             [cs EXCEPT ![i] = executeRequest(cs[i], i, i, cfg.requestDelay, br)],
             Append(executing, i), i + 1, br)

\* mutant: the loop passes a wrong index to executeRequest
RECURSIVE DispatchLoopWrongIndex(_, _, _, _)
DispatchLoopWrongIndex(cs, executing, i, br) ==
    IF i > cfg.nReq
    THEN [calls |-> cs, fm |-> [pc |-> "all", i |-> i, executing |-> executing]]
    ELSE LET cs2 == [cs EXCEPT ![i] = executeRequest(cs[i], i, cfg.nReq + 1 - i,
                                                     cfg.requestDelay, br)]
             ex2 == Append(executing, i)
         IN IF shouldThrottle(ex2, cs2, cfg.concurrency)
            THEN [calls |-> cs2, fm |-> [pc |-> "throttled", i |-> i + 1, executing |-> ex2]]
            ELSE DispatchLoopWrongIndex(cs2, ex2, i + 1, br)

\* lines 203-216: the loop from iteration i up to its next await
RECURSIVE DispatchLoop(_, _, _, _)
DispatchLoop(cs, executing, i, br) ==
    IF i > cfg.nReq
    THEN [calls |-> cs, fm |-> [pc |-> "all", i |-> i, executing |-> executing]]
    ELSE LET cs2 == [cs EXCEPT ![i] = executeRequest(cs[i], i, i, cfg.requestDelay, br)]
             ex2 == Append(executing, i)
         IN IF shouldThrottle(ex2, cs2, cfg.concurrency)
            THEN [calls |-> cs2, fm |-> [pc |-> "throttled", i |-> i + 1, executing |-> ex2]]
            ELSE DispatchLoop(cs2, ex2, i + 1, br)

FetchManyCall ==
    /\ cfg.mode = "many"
    /\ fm.pc = "idle"
    /\ LET r == DispatchLoop(calls, <<>>, 1, browser)
       IN calls' = r.calls /\ fm' = r.fm
    /\ UNCHANGED <<cfg, browser, handle, results, closer>>

\* base client: the delay of executeRequest elapses, fetch is called
RequestDelayDone(i) ==
    /\ calls[i].pc = "requestDelay"
    /\ Step(i, fetch(calls[i], browser))
    /\ UNCHANGED <<cfg, browser, handle, fm, closer>>

\* line 214: handleConcurrency returns, the loop goes on
HandleConcurrencyDone ==
    /\ fm.pc = "throttled"
    /\ handleConcurrency(fm.executing, calls, cfg.concurrency)
    /\ LET r == DispatchLoop(calls, fm.executing, fm.i, browser)
       IN calls' = r.calls /\ fm' = r.fm
    /\ UNCHANGED <<cfg, browser, handle, results, closer>>

Rejected(executing, cs) == \E j \in 1..Len(executing) : cs[executing[j]].pc = "thrown"

\* lines 218-220: Promise.all(executing) fulfils, results is returned
PromiseAllResolve ==
    /\ fm.pc = "all"
    /\ InFlight(fm.executing, calls) = {}
    /\ ~Rejected(fm.executing, calls)
    /\ fm' = [fm EXCEPT !.pc = "resolved"]
    /\ UNCHANGED <<cfg, browser, handle, calls, results, closer>>

\* lines 214 and 218: an awaited promise of executing rejected
FetchManyReject ==
    /\ fm.pc \in {"throttled", "all"}
    /\ Rejected(fm.executing, calls)
    /\ fm' = [fm EXCEPT !.pc = "rejected"]
    /\ UNCHANGED <<cfg, browser, handle, calls, results, closer>>

\* ------------------------------------------------------------ configurations
\* one direct fetch call: the retry accounting
AccountingCfgs ==
    [mode : {"fetch"}, maxRetries : 0..MaxRetries, retries : 0..MaxBase,
     retryDelay : BOOLEAN, userAgent : {FALSE}, javaScriptEnabled : {FALSE},
     actions : {<<>>}, pageFaults : {TRUE}, closes : {0},
     nReq : {1}, concurrency : {0}, requestDelay : {FALSE},
     predicate : {"2xx"}]

\* one direct fetch call: the page session of an attempt
SessionCfgs ==
    [mode : {"fetch"}, maxRetries : 0..1, retries : {0},
     retryDelay : {FALSE}, userAgent : BOOLEAN, javaScriptEnabled : BOOLEAN,
     actions : ActionLists, pageFaults : {TRUE}, closes : {0},
     nReq : {1}, concurrency : {0}, requestDelay : {FALSE},
     predicate : {"2xx"}]

\* one direct fetch call: every action list, the engine never failing
ClassifierCfgs ==
    [mode : {"fetch"}, maxRetries : {0}, retries : {0},
     retryDelay : {FALSE}, userAgent : {FALSE}, javaScriptEnabled : {FALSE},
     actions : AllActionLists, pageFaults : {FALSE}, closes : {0},
     nReq : {1}, concurrency : {0}, requestDelay : {FALSE},
     predicate : {"2xx", "any"}]

\* one direct fetch call racing with close() calls
LifecycleCfgs ==
    [mode : {"fetch"}, maxRetries : 0..1, retries : {0},
     retryDelay : BOOLEAN, userAgent : {FALSE}, javaScriptEnabled : {FALSE},
     actions : {<<>>}, pageFaults : {TRUE}, closes : 1..MaxCloseCalls,
     nReq : {1}, concurrency : {0}, requestDelay : {FALSE},
     predicate : {"2xx"}]

\* concurrency bounds given to fetchMany: 0 stands for undefined (no bound)
Concurrencies == {0, 1, 2}

\* one fetchMany call, with or without a close() call; the longest request
\* lists run with a concurrency bound, without retries and without close()
ManyCfgs ==
    { c \in [mode : {"many"}, maxRetries : 0..1, retries : {0},
             retryDelay : {FALSE}, userAgent : {FALSE}, javaScriptEnabled : {FALSE},
             actions : {<<>>}, pageFaults : {FALSE}, closes : 0..1,
             nReq : 0..MaxRequests, concurrency : Concurrencies,
             requestDelay : BOOLEAN,
             predicate : {"2xx"}] :
        c.nReq > 2 => (c.concurrency # 0 /\ c.closes = 0 /\ c.maxRetries = 0) }

Cfgs ==
    AccountingCfgs \cup SessionCfgs \cup ClassifierCfgs \cup LifecycleCfgs \cup ManyCfgs

Init ==
    /\ cfg \in Cfgs
    /\ browser = 0
    /\ handle = [h \in Slots |-> "unused"]
    /\ calls = [i \in Slots |-> InitCall]
    /\ fm = [pc |-> "idle", i |-> 1, executing |-> <<>>]
    /\ results = [i \in Slots |-> <<>>]
    /\ closer = [pc |-> "idle", target |-> 0, made |-> 0, last |-> "none"]

Next ==
    \/ FetchCall
    \/ \E i \in Slots : CallStep(i)
    \/ \E i \in Slots : RequestDelayDone(i)
    \/ CloseCall \/ BrowserCloseResolve \/ BrowserCloseReject
    \/ FetchManyCall \/ HandleConcurrencyDone \/ PromiseAllResolve \/ FetchManyReject

Spec == Init /\ [][Next]_vars

\* ------------------------------------------------------------ properties
Returned(i) == calls[i].pc = "done"
Response(i) == calls[i].resp[1]
Failed(i) == Returned(i) /\ Response(i).statusText = "Request Failed"
Succeeded(i) == Returned(i) /\ Response(i).statusText = "Ok"

\* C1: fetch never throws: whatever external step fails, the call returns a
\* Response and no error reaches the caller.
C1_FetchNeverThrows == \A i \in Slots : calls[i].pc # "thrown"

\* C2: with base retry count 0, a fetch whose attempts all fail returns
\* attempts = maxRetries + 1 and failedAttempts.length = attempts.
C2_ExhaustedAttempts ==
    \A i \in Slots :
        (Failed(i) /\ cfg.retries = 0) =>
            /\ Response(i).attempts = cfg.maxRetries + 1
            /\ Len(Response(i).failedAttempts) = Response(i).attempts

C2_Witness ==
    \E i \in Slots :
        /\ Failed(i) /\ cfg.retries = 0 /\ cfg.maxRetries = 2
        /\ Response(i).attempts = 3
        /\ Len(Response(i).failedAttempts) = 3

\* C3: with base retry count 0, a fetch that succeeds after k failed attempts
\* returns the status of the successful attempt, attempts = k + 1, and
\* failedAttempts holds the k records of the earlier failures in order.
C3_SuccessAfterFailures ==
    \A i \in Slots :
        (Succeeded(i) /\ cfg.retries = 0) =>
            LET r == Response(i)
                k == calls[i].executed - 1
            IN /\ r.status = calls[i].nav
               /\ r.attempts = k + 1
               /\ k <= cfg.maxRetries
               /\ Len(r.failedAttempts) = k
               /\ \A j \in 1..k : r.failedAttempts[j].n = j - 1
                                  /\ r.failedAttempts[j].call = calls[i].req

C3_Witness ==
    \E i \in Slots :
        /\ Succeeded(i) /\ cfg.retries = 0 /\ cfg.maxRetries = 2
        /\ Response(i).status = 200
        /\ Response(i).attempts = 3
        /\ Len(Response(i).failedAttempts) = 2
        /\ \A j \in 1..2 : Response(i).failedAttempts[j].error = "goto"

\* C4: for every base retry count, the Response's attempts equals the number
\* of attempts the call executed, and on the failure path it also equals
\* failedAttempts.length.
C4_AttemptsIsExecuted ==
    \A i \in Slots :
        Returned(i) =>
            /\ Response(i).attempts = calls[i].executed
            /\ Failed(i) => Len(Response(i).failedAttempts) = Response(i).attempts

\* C4 as amended: attempts is the base retry count plus the number of attempts
\* the call executed; on the failure path failedAttempts.length is the number
\* of attempts executed, attempts - retries.
C4_AttemptsOffsetByBase ==
    \A i \in Slots :
        Returned(i) =>
            /\ Response(i).attempts = cfg.retries + calls[i].executed
            /\ Failed(i) =>
                  /\ Len(Response(i).failedAttempts) = calls[i].executed
                  /\ Len(Response(i).failedAttempts) = Response(i).attempts - cfg.retries

C4_Witness ==
    \E i \in Slots :
        /\ Failed(i) /\ cfg.retries = 3 /\ cfg.maxRetries = 2
        /\ calls[i].executed = 1
        /\ Response(i).attempts = 4
        /\ Len(Response(i).failedAttempts) = 1

\* C5: every page an attempt opened has had close called on it before the
\* next attempt starts and before fetch returns, on every exit path.
C5_PageCloseInvoked ==
    \A i \in Slots :
        /\ calls[i].dangling = 0
        /\ calls[i].pc \in {"done", "thrown", "retryDelay", "newPage"}
              => calls[i].pst # "open"

C5_Witness ==
    \E i \in Slots :
        /\ Failed(i)
        /\ Response(i).body = "close"
        /\ Len(Response(i).failedAttempts) = 2
        /\ Response(i).failedAttempts[1].error = "ActionError"
        /\ calls[i].pst = "closeInvoked"

\* C6: a failure of page close is swallowed: after a navigation with a
\* success status it adds no Failed Attempt Record, does not turn the attempt
\* into a failed one and triggers no retry.
C6_CloseFailureSwallowed ==
    [][\A i \in Slots :
          (/\ calls[i].pc = "close"
           /\ calls[i].nav # NoStatus /\ IsSuccess(calls[i].nav)
           /\ calls'[i].pc # "close")
          => (/\ calls'[i].pc = "done"
              /\ calls'[i].fa = calls[i].fa
              /\ calls'[i].resp[1].statusText = "Ok")]_vars

\* C7: at most one browser handle of a client is started and not yet closed,
\* for any interleaving of fetch calls and close calls.
C7_AtMostOneHandle ==
    Cardinality({h \in Slots : handle[h] \in {"live", "closing"}}) <= 1

\* C8: close is idempotent: when close() returns the handle is absent, and a
\* close() on an absent handle raises nothing, does not call browser.close
\* and leaves the handle absent.
C8_CloseIdempotent ==
    [][/\ (closer.pc = "closing" /\ closer'.last = "returned") => browser' = 0
       /\ (closer'.made = closer.made + 1 /\ browser = 0)
             => /\ closer'.pc = "idle"
                /\ closer'.last = "noop"
                /\ handle' = handle
                /\ browser' = 0]_vars

C8_Witness ==
    /\ closer.made = 2
    /\ closer.last = "noop"
    /\ browser = 0
    /\ \E h \in Slots : handle[h] = "closed"

\* C9: during fetchMany with a concurrency bound c >= 1, at most c dispatched
\* fetches are unsettled, whatever the request count and completion order.
C9_BoundedInFlight ==
    cfg.concurrency >= 1 =>
        Cardinality(InFlight(fm.executing, calls)) <= cfg.concurrency

C9_Witness ==
    /\ cfg.nReq = 3 /\ cfg.concurrency = 2
    /\ Len(fm.executing) = 3
    /\ Returned(2) /\ ~Settled(calls[1]) /\ ~Settled(calls[3])

\* C10: when fetchMany resolves, its output has one entry per request and
\* entry i is the Response of the fetch issued for requests[i].
C10_IndexAligned ==
    fm.pc = "resolved" =>
        \A i \in Slots :
            IF i <= cfg.nReq
            THEN /\ Returned(i)
                 /\ results[i] = calls[i].resp
                 /\ results[i][1].req = i
            ELSE results[i] = <<>>

C10_Witness ==
    /\ fm.pc = "resolved" /\ cfg.nReq = 3
    /\ results[1][1].status = 404
    /\ results[2][1].status = 200
    /\ results[3][1].status = 500

\* C11: fetchMany dispatches one fetch for every request and settles (resolves
\* or rejects) only after every dispatched fetch has settled.
C11_SettlesAfterAll ==
    fm.pc \in {"resolved", "rejected"} =>
        /\ Len(fm.executing) = cfg.nReq
        /\ InFlight(fm.executing, calls) = {}

\* C12: extractActions is an order-preserving partition: every action is in
\* exactly one bucket, `before` holds the descriptors tagged "beforeRequest",
\* `after` the bare callables and the descriptors tagged "afterRequest", each
\* in the order of the list; an absent list gives two empty buckets.
Increasing(q) == \A a, b \in 1..Len(q) : a < b => q[a] < q[b]
Members(q) == {q[a] : a \in 1..Len(q)}

C12_ExtractActionsPartition ==
    LET r == extractActions(cfg.actions)
    IN IF cfg.actions = ActionsAbsent
       THEN r.before = <<>> /\ r.after = <<>>
       ELSE /\ Members(r.before) =
                  {a \in 1..Len(cfg.actions) : cfg.actions[a] = "beforeRequest"}
            /\ Members(r.after) =
                  {a \in 1..Len(cfg.actions) :
                       cfg.actions[a] \in {"function", "afterRequest"}}
            /\ Len(r.before) + Len(r.after) = Len(cfg.actions)
            /\ Increasing(r.before) /\ Increasing(r.after)

C12_Witness ==
    /\ cfg.actions = <<"function", "beforeRequest", "afterRequest">>
    /\ extractActions(cfg.actions) = [before |-> <<2>>, after |-> <<1, 3>>]
    /\ \E i \in Slots : calls[i].pc = "after" /\ calls[i].k = 2

\* C13: within one attempt the page is configured before the first
\* before-request action, the before-request actions run one after the other
\* in list order and all complete before navigation starts, navigation
\* completes before the first after-request action, and the after-request
\* actions run in list order and all complete before the content is read.
ConfigurationCompletes(c) ==
    \/ c.pc = "newPage" /\ ~cfg.userAgent /\ ~cfg.javaScriptEnabled
    \/ c.pc = "setUserAgent" /\ ~cfg.javaScriptEnabled
    \/ c.pc = "setJavaScriptEnabled"

OrderedStep(c, d) ==
    /\ d.pc = "setUserAgent" => c.pc = "newPage" /\ cfg.userAgent
    /\ d.pc = "setJavaScriptEnabled" =>
           /\ cfg.javaScriptEnabled
           /\ c.pc = "setUserAgent" \/ (c.pc = "newPage" /\ ~cfg.userAgent)
    /\ d.pc = "before" =>
           \/ ConfigurationCompletes(c) /\ d.k = 1
           \/ c.pc = "before" /\ d.k = c.k + 1 /\ d.k <= Len(Before)
    /\ d.pc = "goto" =>
           \/ c.pc = "before" /\ c.k = Len(Before)
           \/ ConfigurationCompletes(c) /\ Len(Before) = 0
    /\ d.pc = "after" =>
           \/ c.pc = "goto" /\ d.k = 1
           \/ c.pc = "after" /\ d.k = c.k + 1 /\ d.k <= Len(After)
    /\ d.pc = "content" =>
           \/ c.pc = "after" /\ c.k = Len(After)
           \/ c.pc = "goto" /\ Len(After) = 0
    /\ d.pc \in {"setUserAgent", "setJavaScriptEnabled", "before", "goto",
                 "after", "content"} => d.executed = c.executed

C13_AttemptStepOrder ==
    [][\A i \in Slots : calls'[i] # calls[i] => OrderedStep(calls[i], calls'[i])]_vars

C13_Witness ==
    \E i \in Slots :
        /\ calls[i].pc = "content"
        /\ cfg.userAgent /\ cfg.javaScriptEnabled
        /\ Len(Before) > 0 /\ Len(After) > 0

\* C14: an attempt whose navigation gives no response or no status is a
\* failure whatever the success predicate answers: no success Response is
\* built from it, and with maxRetries = 0 the fetch returns a failure Response
\* with exactly one Failed Attempt Record and status 500.
C14_NoStatusIsFailure ==
    \A i \in Slots :
        Returned(i) /\ calls[i].nav = NoStatus =>
            /\ Failed(i)
            /\ cfg.maxRetries = 0 =>
                   /\ Len(Response(i).failedAttempts) = 1
                   /\ Response(i).status = DefaultStatus

C14_Witness ==
    \E i \in Slots :
        /\ Failed(i) /\ calls[i].nav = NoStatus
        /\ cfg.predicate = "any" /\ cfg.maxRetries = 0
        /\ calls[i].err = InvalidStatusCodeError(DefaultStatus)
        /\ Len(Response(i).failedAttempts) = 1

\* C15: whenever an attempt opens a page, the browser handle it opens the page
\* on is live: started, not closed and not in the course of being closed,
\* whatever close() calls run beside the fetch.
C15_PageOpensOnLiveHandle ==
    [][\A i \in Slots :
          calls[i].pc = "newPage" /\ calls'[i].pst = "open" =>
              calls[i].h # 0 /\ handle[calls[i].h] = "live"]_vars

\* C16: the attempts of one fetch call are strictly sequential: a further
\* attempt starts only when every earlier attempt has recorded its failure
\* and, if the earlier attempt had opened a page, after the close of that page
\* was invoked and its settling awaited; no attempt starts while the call still
\* owns an open page.
InAttempt(c) ==
    c.pc \in {"newPage", "setUserAgent", "setJavaScriptEnabled", "before",
              "goto", "after", "content", "close"}

SequentialStep(c, d) ==
    d.executed > c.executed /\ c.executed > 0 =>
        /\ Len(d.fa) >= d.executed - 1
        /\ c.page => c.pc \in {"catchClose", "retryDelay"} /\ c.pst = "closeInvoked"
        /\ d.pst # "open"

C16_AttemptsSequential ==
    [][\A i \in Slots :
          /\ SequentialStep(calls[i], calls'[i])
          /\ calls'[i].dangling = 0
          /\ InAttempt(calls'[i]) => Len(calls'[i].fa) = calls'[i].executed - 1]_vars

C16_Witness ==
    \E i \in Slots :
        /\ calls[i].executed = 2 /\ calls[i].pst = "open"
        /\ calls[i].fa = <<[error |-> "goto", call |-> calls[i].req, n |-> 0]>>

\* C17: when the retries are exhausted the call returns a Response built from
\* the last error only: status is the status that error carries (the observed
\* status of an invalid-status failure) or 500, statusText is "Request Failed",
\* body is the last error's message ("Unknown error" for a throw that is not
\* an Error), headers are empty and failedAttempts is the full list.
Exhausted(i) ==
    /\ calls[i].executed > 0
    /\ Settled(calls[i])
    /\ ~Succeeded(i)

LastErrorStatus(c) ==
    IF c.err = InvalidStatusCodeError(c.nav) /\ c.nav # NoStatus
    THEN c.nav
    ELSE DefaultStatus

LastErrorMessage(c) ==
    IF c.err.kind = "Error" THEN c.err.message ELSE "Unknown error"

C17_ExhaustedResponse ==
    \A i \in Slots :
        Exhausted(i) =>
            /\ Returned(i)
            /\ Response(i).status = LastErrorStatus(calls[i])
            /\ Response(i).statusText = "Request Failed"
            /\ Response(i).body = LastErrorMessage(calls[i])
            /\ Response(i).body = calls[i].fa[Len(calls[i].fa)].error
            /\ Response(i).headers = "empty"
            /\ Response(i).failedAttempts = calls[i].fa
            /\ Len(calls[i].fa) = calls[i].executed

\* C18: the Failed Attempt Records of a fetch call are its own and are only
\* ever appended: a step keeps every record already in the list, every failed
\* attempt of the call adds exactly one record (the j-th record is that of the
\* j-th attempt), and the failedAttempts of a Response holds records of its
\* own call only, whatever other fetch calls run beside it.
IsPrefix(p, q) == Len(p) <= Len(q) /\ SubSeq(q, 1, Len(p)) = p

OwnRecords(c) ==
    /\ \A j \in 1..Len(c.fa) : c.fa[j].call = c.req /\ c.fa[j].n = cfg.retries + j - 1
    /\ IF c.executed = 0 THEN c.fa = <<>>
       ELSE Len(c.fa) \in {c.executed - 1, c.executed}
    /\ c.pc = "done" => c.resp[1].failedAttempts = c.fa /\ c.resp[1].req = c.req

C18_RecordsPrivateAppendOnly ==
    [][\A i \in Slots :
          /\ IsPrefix(calls[i].fa, calls'[i].fa)
          /\ OwnRecords(calls'[i])]_vars

C18_Witness ==
    \E i, j \in Slots :
        /\ i # j
        /\ Failed(i) /\ Len(calls[i].fa) = 2
        /\ ~Settled(calls[j]) /\ Len(calls[j].fa) = 1

\* C19: with a retry delay set, the delay is awaited exactly once between a
\* failed attempt and the attempt that follows it, and at no other time: not
\* before the first attempt, not after a success, not after the last failed
\* attempt; with no retry delay (absent or 0) no delay is awaited at all.
DelayedStep(c, d) ==
    /\ d.executed > c.executed /\ c.executed > 0 /\ cfg.retryDelay =>
           /\ c.pc = "retryDelay"
           /\ d.executed = c.executed + 1 /\ d.delays = c.delays + 1
    /\ d.delays # c.delays => c.pc = "retryDelay" /\ d.executed = c.executed + 1
    /\ d.pc = "retryDelay" /\ c.pc # "retryDelay" =>
           /\ cfg.retryDelay
           /\ Len(d.fa) = d.executed /\ d.cur < cfg.maxRetries

C19_RetryDelayBetweenAttempts ==
    [][\A i \in Slots :
          /\ DelayedStep(calls[i], calls'[i])
          /\ calls'[i].delays =
                 IF cfg.retryDelay /\ calls'[i].executed > 0
                 THEN calls'[i].executed - 1 ELSE 0]_vars

C19_Witness ==
    \E i \in Slots :
        /\ cfg.retryDelay /\ Succeeded(i)
        /\ calls[i].executed = 3 /\ calls[i].delays = 2

\* C20: every fetch call ends with exactly one Response after at most
\* max(1, maxRetries - retries + 1) attempts, as long as every external call
\* returns or throws: a call that has started never makes more attempts than
\* that, and either has returned its one Response or still has a step to take.
MaxAttempts ==
    IF cfg.maxRetries - cfg.retries + 1 > 1
    THEN cfg.maxRetries - cfg.retries + 1 ELSE 1

C20_TerminatesWithResponse ==
    \A i \in Slots :
        calls[i].pc # "idle" =>
            /\ calls[i].executed <= MaxAttempts
            /\ Len(calls[i].resp) <= 1
            /\ \/ Returned(i) /\ Len(calls[i].resp) = 1
               \/ ~Settled(calls[i]) /\ calls[i].resp = <<>>
                    /\ ENABLED (CallStep(i) \/ RequestDelayDone(i))
====
